---- MODULE Spec2Model ----
(***************************************************************************)
(* Model of the pycalver/bumpver v2 version engine (src/pycalver/           *)
(* v2version.py): parsing a version string under a template, formatting a  *)
(* V2VersionInfo under a template, and the increment transition.            *)
(*                                                                         *)
(* Strings are sequences of one-character strings; None is NoneInt for the *)
(* integer fields and NoneStr for a regex group that did not take part in  *)
(* the match.  A raised exception is a result whose kind is the exception. *)
(***************************************************************************)
EXTENDS Integers, Sequences, FiniteSets, TLC

(***************************************************************************)
(* Bounds of the model.                                                    *)
(***************************************************************************)
\* number of incr calls chained on one version string
MaxIncr == 2
MaxSegLen == 4

(***************************************************************************)
(* Python values.                                                          *)
(***************************************************************************)
NoneInt == 0 - 1
NoneStr == <<"None">>

Digits == <<"0", "1", "2", "3", "4", "5", "6", "7", "8", "9">>
DigitSet == {Digits[i] : i \in 1..10}

DigitValue == [c \in DigitSet |-> (CHOOSE i \in 1..10 : Digits[i] = c) - 1]

DigitVal(c) == DigitValue[c]

IsDigits(s) == \A i \in 1..Len(s) : s[i] \in DigitSet

\* int(s, base=10) of a digit string
RECURSIVE StrToInt(_)
StrToInt(s) ==
    IF Len(s) = 0 THEN 0
    ELSE 10 * StrToInt(SubSeq(s, 1, Len(s) - 1)) + DigitVal(s[Len(s)])

\* str(n) of a non-negative int
RECURSIVE IntToStr(_)
IntToStr(n) ==
    IF n < 10 THEN <<Digits[n + 1]>>
    ELSE Append(IntToStr(n \div 10), Digits[(n % 10) + 1])

\* "{0:0w}".format(n)
RECURSIVE ZeroPad(_, _)
ZeroPad(s, w) == IF Len(s) >= w THEN s ELSE ZeroPad(<<"0">> \o s, w)

\* p == s[i : i + len(p)]   (i is 1-based)
StartsAt(s, p, i) ==
    /\ i + Len(p) - 1 <= Len(s)
    /\ \A k \in 1..Len(p) : s[i + k - 1] = p[k]

\* s.find(p): 0-based index of the first occurrence, -1 if there is none
RECURSIVE FindFrom(_, _, _)
FindFrom(s, p, i) ==
    IF i + Len(p) - 1 > Len(s) THEN 0 - 1
    ELSE IF StartsAt(s, p, i) THEN i - 1
    ELSE FindFrom(s, p, i + 1)

Find(s, p) == FindFrom(s, p, 1)

\* s.replace(p, r): every non-overlapping occurrence, left to right
RECURSIVE ReplaceFrom(_, _, _, _)
ReplaceFrom(s, p, r, i) ==
    IF i > Len(s) THEN <<>>
    ELSE IF Len(p) > 0 /\ StartsAt(s, p, i)
         THEN r \o ReplaceFrom(s, p, r, i + Len(p))
         ELSE <<s[i]>> \o ReplaceFrom(s, p, r, i + 1)

Replace(s, p, r) == ReplaceFrom(s, p, r, 1)

\* p in s
Contains(s, p) == Find(s, p) >= 0

\* comparison of two lists of ints, as Python compares lists: left > right
RECURSIVE ListGt(_, _)
ListGt(l, r) ==
    IF Len(l) = 0 THEN FALSE
    ELSE IF Len(r) = 0 THEN TRUE
    ELSE IF l[1] # r[1] THEN l[1] > r[1]
    ELSE ListGt(Tail(l), Tail(r))

(***************************************************************************)
(* datetime.date and strftime, as the standard library computes them.      *)
(***************************************************************************)
IsLeap(y) == (y % 4 = 0) /\ ((y % 100 # 0) \/ (y % 400 = 0))

DaysInMonth(y, m) ==
    IF m = 2 THEN (IF IsLeap(y) THEN 29 ELSE 28)
    ELSE IF m \in {4, 6, 9, 11} THEN 30 ELSE 31

DaysInYear(y) == IF IsLeap(y) THEN 366 ELSE 365

RECURSIVE DaysBeforeMonth(_, _)
DaysBeforeMonth(y, m) ==
    IF m <= 1 THEN 0 ELSE DaysBeforeMonth(y, m - 1) + DaysInMonth(y, m - 1)

\* dt.date(y, m, d) exists
IsDate(y, m, d) ==
    /\ y \in 1..9999
    /\ m \in 1..12
    /\ d \in 1..DaysInMonth(y, m)

MkDate(y, m, d) == [year |-> y, month |-> m, day |-> d]

\* strftime("%j")
DayOfYear(date) == DaysBeforeMonth(date.year, date.month) + date.day

\* date.toordinal()
Ordinal(date) ==
    LET y == date.year - 1
    IN  365 * y + (y \div 4) - (y \div 100) + (y \div 400) + DayOfYear(date)

\* date.weekday(): Monday is 0
Weekday(date) == (Ordinal(date) + 6) % 7

\* strftime("%W"): week of the year, weeks start on Monday
WeekW(date) == (DayOfYear(date) + 6 - Weekday(date)) \div 7

\* strftime("%U"): week of the year, weeks start on Sunday
WeekU(date) == (DayOfYear(date) + 6 - ((Weekday(date) + 1) % 7)) \div 7

\* number of ISO-8601 weeks of the year y
IsoWeeksInYear(y) ==
    LET jan1 == Weekday(MkDate(y, 1, 1))
    IN  IF jan1 = 3 \/ (jan1 = 2 /\ IsLeap(y)) THEN 53 ELSE 52

IsoRawWeek(date) == (DayOfYear(date) - (Weekday(date) + 1) + 10) \div 7

\* strftime("%V")
WeekV(date) ==
    LET w == IsoRawWeek(date)
    IN  IF w < 1 THEN IsoWeeksInYear(date.year - 1)
        ELSE IF w > IsoWeeksInYear(date.year) THEN 1
        ELSE w

\* strftime("%G")
YearG(date) ==
    LET w == IsoRawWeek(date)
    IN  IF w < 1 THEN date.year - 1
        ELSE IF w > IsoWeeksInYear(date.year) THEN date.year + 1
        ELSE date.year

\* version.quarter_from_month
quarter_from_month(month) == ((month - 1) \div 3) + 1

\* the month of day-of-year doy of year y
RECURSIVE MonthOfDoy(_, _, _)
MonthOfDoy(y, doy, m) ==
    IF doy <= DaysBeforeMonth(y, m + 1) THEN m ELSE MonthOfDoy(y, doy, m + 1)

\* version.date_from_doy: fails when year y has no such day
DoyIsDate(y, doy) == y \in 1..9999 /\ doy \in 1..DaysInYear(y)

date_from_doy(y, doy) ==
    LET m == MonthOfDoy(y, doy, 1)
    IN  MkDate(y, m, doy - DaysBeforeMonth(y, m))


(***************************************************************************)
(* version.py: the lookup tables of the version model.                     *)
(***************************************************************************)
\* V2CalendarInfo._fields, in declaration order
CalFields ==
    <<"year_y", "year_g", "quarter", "month", "dom", "doy",
      "week_w", "week_u", "week_v">>

CalFieldSet == {CalFields[i] : i \in 1..Len(CalFields)}

\* V2VersionInfo._fields
VinfoFields ==
    CalFieldSet \cup
    {"major", "minor", "patch", "num", "bid", "tag", "pytag", "inc0", "inc1"}

\* the release names and their PEP-440 short codes
RELEASE_BY_PEP440_TAG ==
    [pytag \in {"a", "b", "", "rc", "dev", "post"} |->
        CASE pytag = "a"    -> "alpha"
          [] pytag = "b"    -> "beta"
          [] pytag = ""     -> "final"
          [] pytag = "rc"   -> "rc"
          [] pytag = "dev"  -> "dev"
          [] pytag = "post" -> "post"]

PEP440_TAG_BY_RELEASE ==
    [tag \in {RELEASE_BY_PEP440_TAG[p] : p \in DOMAIN RELEASE_BY_PEP440_TAG} |->
        CHOOSE p \in DOMAIN RELEASE_BY_PEP440_TAG : RELEASE_BY_PEP440_TAG[p] = tag]

\* the text of a release name or of a short code
TagText ==
    [t \in {"alpha", "beta", "dev", "rc", "post", "final", "a", "b", ""} |->
        CASE t = "alpha" -> <<"a", "l", "p", "h", "a">>
          [] t = "beta"  -> <<"b", "e", "t", "a">>
          [] t = "dev"   -> <<"d", "e", "v">>
          [] t = "rc"    -> <<"r", "c">>
          [] t = "post"  -> <<"p", "o", "s", "t">>
          [] t = "final" -> <<"f", "i", "n", "a", "l">>
          [] t = "a"     -> <<"a">>
          [] t = "b"     -> <<"b">>
          [] t = ""      -> <<>>]

\* the release name or short code that a text spells
TagOfText(s) == CHOOSE t \in DOMAIN TagText : TagText[t] = s

\* the initial values the reset cascade restores
V2_FIELD_INITIAL_VALUES ==
    [f \in {"major", "minor", "patch", "num", "inc0", "inc1"} |->
        IF f = "inc1" THEN 1 ELSE 0]

(***************************************************************************)
(* v2patterns.py: the parts of a template.                                 *)
(***************************************************************************)
\* PATTERN_PART_FIELDS: each part, its text and the field it binds
PATTERN_PART_FIELDS ==
    <<
      [part |-> "YYYY", text |-> <<"Y", "Y", "Y", "Y">>, field |-> "year_y"],
      [part |-> "YY", text |-> <<"Y", "Y">>, field |-> "year_y"],
      [part |-> "0Y", text |-> <<"0", "Y">>, field |-> "year_y"],
      [part |-> "MM", text |-> <<"M", "M">>, field |-> "month"],
      [part |-> "0M", text |-> <<"0", "M">>, field |-> "month"],
      [part |-> "DD", text |-> <<"D", "D">>, field |-> "dom"],
      [part |-> "0D", text |-> <<"0", "D">>, field |-> "dom"],
      [part |-> "JJJ", text |-> <<"J", "J", "J">>, field |-> "doy"],
      [part |-> "00J", text |-> <<"0", "0", "J">>, field |-> "doy"],
      [part |-> "WW", text |-> <<"W", "W">>, field |-> "week_w"],
      [part |-> "0W", text |-> <<"0", "W">>, field |-> "week_w"],
      [part |-> "UU", text |-> <<"U", "U">>, field |-> "week_u"],
      [part |-> "0U", text |-> <<"0", "U">>, field |-> "week_u"],
      [part |-> "VV", text |-> <<"V", "V">>, field |-> "week_v"],
      [part |-> "0V", text |-> <<"0", "V">>, field |-> "week_v"],
      [part |-> "GGGG", text |-> <<"G", "G", "G", "G">>, field |-> "year_g"],
      [part |-> "GG", text |-> <<"G", "G">>, field |-> "year_g"],
      [part |-> "0G", text |-> <<"0", "G">>, field |-> "year_g"],
      [part |-> "MAJOR", text |-> <<"M", "A", "J", "O", "R">>, field |-> "major"],
      [part |-> "MINOR", text |-> <<"M", "I", "N", "O", "R">>, field |-> "minor"],
      [part |-> "PATCH", text |-> <<"P", "A", "T", "C", "H">>, field |-> "patch"],
      [part |-> "BUILD", text |-> <<"B", "U", "I", "L", "D">>, field |-> "bid"],
      [part |-> "BLD", text |-> <<"B", "L", "D">>, field |-> "bid"],
      [part |-> "RELEASE", text |-> <<"R", "E", "L", "E", "A", "S", "E">>, field |-> "tag"],
      [part |-> "PYTAG", text |-> <<"P", "Y", "T", "A", "G">>, field |-> "pytag"],
      [part |-> "NUM", text |-> <<"N", "U", "M">>, field |-> "num"]
    >>

PartNames == {PATTERN_PART_FIELDS[i].part : i \in 1..Len(PATTERN_PART_FIELDS)}

PartTable ==
    [name \in PartNames |->
        PATTERN_PART_FIELDS[CHOOSE i \in 1..Len(PATTERN_PART_FIELDS) :
                                PATTERN_PART_FIELDS[i].part = name]]

PartRec(name) == PartTable[name]

\* the text of a part, to write templates with
P(name) == PartRec(name).text

\* the zero value of a part: version.is_zero_val
ZERO_VALUES ==
    [part \in {"MAJOR", "MINOR", "PATCH", "NUM", "RELEASE", "PYTAG"} |->
        CASE part = "RELEASE" -> TagText["final"]
          [] part = "PYTAG"   -> <<>>
          [] OTHER            -> <<"0">>]

is_zero_val(part, part_value) ==
    part \in DOMAIN ZERO_VALUES /\ part_value = ZERO_VALUES[part]


\* PART_FORMATS: the text of a field value under a part
FormatPart(part, val) ==
    CASE part \in {"YYYY", "GGGG", "MM", "DD", "JJJ", "WW", "UU", "VV",
                   "MAJOR", "MINOR", "PATCH", "NUM"} -> IntToStr(val)
      [] part \in {"YY", "GG"}  -> IntToStr(val % 100)
      [] part \in {"0Y", "0G"}  -> ZeroPad(IntToStr(val % 100), 2)
      [] part \in {"0M", "0D", "0W", "0U", "0V"} -> ZeroPad(IntToStr(val), 2)
      [] part = "00J"           -> ZeroPad(IntToStr(val), 3)
      [] part = "BUILD"         -> val
      [] part = "BLD"           -> IntToStr(StrToInt(val))
      [] part \in {"RELEASE", "PYTAG"} -> TagText[val]

(***************************************************************************)
(* Calendar derivation.                                                    *)
(***************************************************************************)
MkCinfo(year_y, year_g, quarter, month, dom, doy, week_w, week_u, week_v) ==
    [year_y |-> year_y, year_g |-> year_g, quarter |-> quarter,
     month |-> month, dom |-> dom, doy |-> doy,
     week_w |-> week_w, week_u |-> week_u, week_v |-> week_v]

\* cal_info(date)
cal_info(date) ==
    MkCinfo(date.year, YearG(date), quarter_from_month(date.month),
            date.month, date.day, DayOfYear(date),
            WeekW(date), WeekU(date), WeekV(date))

\* _ver_to_cal_info(vinfo)
ver_to_cal_info(vinfo) == [f \in CalFieldSet |-> vinfo[f]]

\* _is_cal_gt(left, right): left > right over the fields set on both sides
RECURSIVE CalVals(_, _, _, _)
CalVals(side, left, right, i) ==
    IF i > Len(CalFields) THEN <<>>
    ELSE LET f == CalFields[i]
             rest == CalVals(side, left, right, i + 1)
         IN  IF left[f] = NoneInt \/ right[f] = NoneInt THEN rest
             ELSE <<side[f]>> \o rest

\* every field set on both sides is at least as large on the left
is_cal_ge_each(left, right) ==
    \A f \in CalFieldSet :
        (left[f] # NoneInt /\ right[f] # NoneInt) => left[f] >= right[f]

is_cal_gt(left, right) ==
    ListGt(CalVals(left, left, right, 1), CalVals(right, left, right, 1))

\* int(fvals[key]) if key in fvals else None
MaybeInt(fvals, key) ==
    IF key \in DOMAIN fvals THEN StrToInt(fvals[key]) ELSE NoneInt

\* a year below 1000 is a two digit year of this century
NormYear(y) == IF y # NoneInt /\ y < 1000 THEN y + 2000 ELSE y

\* Python truth of an optional int: neither None nor 0
Truthy(n) == n # NoneInt /\ n # 0

NoCinfo == [f \in CalFieldSet |-> NoneInt]

\* parse_field_values_to_cinfo(field_values)
parse_field_values_to_cinfo(fvals) ==
    LET year_y == NormYear(MaybeInt(fvals, "year_y"))
        year_g == NormYear(MaybeInt(fvals, "year_g"))
        month0 == MaybeInt(fvals, "month")
        doy0   == MaybeInt(fvals, "doy")
        dom0   == MaybeInt(fvals, "dom")
        week_w == MaybeInt(fvals, "week_w")
        week_u == MaybeInt(fvals, "week_u")
        week_v == MaybeInt(fvals, "week_v")
        by_doy == Truthy(year_y) /\ Truthy(doy0)
    IN  IF \E k \in CalFieldSet \cap DOMAIN fvals : fvals[k] = NoneStr
        THEN \* int(None)
             [kind |-> "TypeError", cinfo |-> NoCinfo]
        ELSE IF by_doy /\ ~DoyIsDate(year_y, doy0)
        THEN [kind |-> "ValueError", cinfo |-> NoCinfo]
        ELSE
          LET month == IF by_doy THEN date_from_doy(year_y, doy0).month ELSE month0
              dom   == IF by_doy THEN date_from_doy(year_y, doy0).day ELSE dom0
              by_md == Truthy(year_y) /\ Truthy(month) /\ Truthy(dom)
          IN  IF by_md /\ ~IsDate(year_y, month, dom)
              THEN [kind |-> "ValueError", cinfo |-> NoCinfo]
              ELSE
                LET has_date == by_doy \/ by_md
                    date == MkDate(year_y, month, dom)
                    quarter0 == MaybeInt(fvals, "quarter")
                    quarter ==
                        IF quarter0 = NoneInt /\ Truthy(month)
                        THEN quarter_from_month(month) ELSE quarter0
                IN  [kind |-> "ok",
                     cinfo |->
                       IF has_date
                       THEN MkCinfo(date.year, YearG(date), quarter, date.month,
                                    date.day, DayOfYear(date),
                                    WeekW(date), WeekU(date), WeekV(date))
                       ELSE MkCinfo(year_y, year_g, quarter, month, dom, doy0,
                                    week_w, week_u, week_v)]

(***************************************************************************)
(* The version model.                                                      *)
(***************************************************************************)
\* fvals.get(key) or ""
GetOrEmpty(fvals, key) ==
    IF key \in DOMAIN fvals /\ fvals[key] # NoneStr THEN fvals[key] ELSE <<>>

\* int(fvals.get(key) or dflt)
IntOr(fvals, key, dflt) ==
    IF GetOrEmpty(fvals, key) = <<>> THEN dflt ELSE StrToInt(fvals[key])

NoVinfo ==
    [f \in VinfoFields |->
        CASE f = "bid"             -> <<>>
          [] f \in {"tag", "pytag"} -> ""
          [] OTHER                 -> NoneInt]

\* the tag and the pytag of parse_field_values_to_vinfo, from the two the
\* groups gave
tag_of(tag, pytag) ==
    IF pytag # "" /\ tag = "" THEN RELEASE_BY_PEP440_TAG[pytag]
    ELSE IF tag = "" THEN "final" ELSE tag

pytag_of(tag, pytag) ==
    IF tag # "" /\ pytag = "" THEN PEP440_TAG_BY_RELEASE[tag] ELSE pytag

\* the V2VersionInfo of parse_field_values_to_vinfo, from cinfo and the tags
vinfo_of(fvals, c, tag, pytag) ==
    IF c.kind # "ok" THEN [kind |-> c.kind, vinfo |-> NoVinfo]
    ELSE [kind |-> "ok",
          vinfo |->
            [f \in VinfoFields |->
                CASE f \in CalFieldSet -> c.cinfo[f]
                  [] f = "major" -> IntOr(fvals, "major", 0)
                  [] f = "minor" -> IntOr(fvals, "minor", 0)
                  [] f = "patch" -> IntOr(fvals, "patch", 0)
                  [] f = "num"   -> IntOr(fvals, "num", 0)
                  [] f = "bid"   -> IF "bid" \in DOMAIN fvals
                                    THEN fvals["bid"]
                                    ELSE <<"1", "0", "0", "0">>
                  [] f = "tag"   -> tag_of(tag, pytag)
                  [] f = "pytag" -> pytag_of(tag, pytag)
                  [] f = "inc0"  -> IntOr(fvals, "inc0", 0)
                  [] f = "inc1"  -> IntOr(fvals, "inc1", 1)]]

\* parse_field_values_to_vinfo(field_values)
parse_field_values_to_vinfo(fvals) ==
    vinfo_of(fvals, parse_field_values_to_cinfo(fvals),
             TagOfText(GetOrEmpty(fvals, "tag")),
             TagOfText(GetOrEmpty(fvals, "pytag")))


(***************************************************************************)
(* The segment tree of a template.                                         *)
(***************************************************************************)
Leaf(seg) == [leaf |-> TRUE, seg |-> seg, kids |-> <<>>]
Branch(kids) == [leaf |-> FALSE, seg |-> <<>>, kids |-> kids]

\* the segment that ends before the structural character at index j
WithSegment(kids, raw, seg_start, j) ==
    IF seg_start + 1 < j
    THEN Append(kids, Leaf(SubSeq(raw, seg_start + 1, j - 1)))
    ELSE kids

\* the loop of _parse_segtree over raw (the template inside "[" and "]"):
\* stack is branch_stack, seg_start the index of the last structural
\* character, j the index of the character looked at
RECURSIVE SegtreeLoop(_, _, _, _)
SegtreeLoop(raw, stack, seg_start, j) ==
    IF j > Len(raw)
    THEN IF Len(stack) > 1
         THEN [kind |-> "ValueError", root |-> <<>>]     \* unclosed brace
         ELSE [kind |-> "ok", root |-> stack[1]]
    ELSE
      LET char == raw[j]
          is_escaped == j > 1 /\ raw[j - 1] = "\\"
          n == Len(stack)
          top == WithSegment(stack[n], raw, seg_start, j)
      IN  IF char \in {"[", "]"} /\ ~is_escaped
          THEN IF char = "["
               THEN SegtreeLoop(raw, [stack EXCEPT ![n] = top] \o <<(<<>>)>>,
                                j, j + 1)
               ELSE IF n = 1
                    THEN [kind |-> "ValueError", root |-> <<>>]  \* unbalanced
                    ELSE SegtreeLoop(
                           raw,
                           [SubSeq(stack, 1, n - 1) EXCEPT
                              ![n - 1] = Append(stack[n - 1], Branch(top))],
                           j, j + 1)
          ELSE SegtreeLoop(raw, stack, seg_start, j + 1)

\* _parse_segtree(raw_pattern): the children of the outermost group
parse_segtree(raw_pattern) ==
    LET r == SegtreeLoop(<<"[">> \o raw_pattern \o <<"]">>, <<(<<>>)>>, 0, 1)
    IN  IF r.kind = "ok"
        THEN [kind |-> "ok", tree |-> r.root[1].kids]
        ELSE [kind |-> r.kind, tree |-> <<>>]

\* _iter_flat_segtree(segtree)
RECURSIVE iter_flat_segtree(_)
iter_flat_segtree(segtree) ==
    IF Len(segtree) = 0 THEN <<>>
    ELSE (IF segtree[1].leaf THEN <<segtree[1].seg>>
          ELSE iter_flat_segtree(segtree[1].kids))
         \o iter_flat_segtree(Tail(segtree))

(***************************************************************************)
(* The formatter.                                                          *)
(***************************************************************************)
\* the parts in the order sorted(..., key=-len(part)) gives them
RECURSIVE PartsByLen(_)
PartsByLen(n) ==
    IF n = 0 THEN <<>>
    ELSE SelectSeq(PATTERN_PART_FIELDS, LAMBDA r : Len(r.text) = n)
         \o PartsByLen(n - 1)

MaxPartLen ==
    CHOOSE n \in {Len(PATTERN_PART_FIELDS[i].text) : i \in 1..Len(PATTERN_PART_FIELDS)} :
        \A i \in 1..Len(PATTERN_PART_FIELDS) : Len(PATTERN_PART_FIELDS[i].text) <= n

PartsLongestFirst == PartsByLen(MaxPartLen)

IsNone(field, val) ==
    IF field = "bid" THEN val = NoneStr
    ELSE IF field \in {"tag", "pytag"} THEN FALSE
    ELSE val = NoneInt

\* _format_part_values(vinfo): (part, text of its value), longest part first
RECURSIVE PartValuesOf(_, _)
PartValuesOf(vinfo, parts) ==
    IF Len(parts) = 0 THEN <<>>
    ELSE LET r == parts[1]
         IN  (IF IsNone(r.field, vinfo[r.field]) THEN <<>>
              ELSE <<[part |-> r.part, text |-> r.text,
                      value |-> FormatPart(r.part, vinfo[r.field])]>>)
             \o PartValuesOf(vinfo, Tail(parts))

format_part_values(vinfo) == PartValuesOf(vinfo, PartsLongestFirst)

\* only the first (longest) part of the segment is replaced
ReplaceFirstPart(result, used_parts) ==
    IF Len(used_parts) = 0 THEN result
    ELSE Replace(result, used_parts[1].text, used_parts[1].value)

RECURSIVE ReplaceParts(_, _)
ReplaceParts(result, used_parts) ==
    IF Len(used_parts) = 0 THEN result
    ELSE ReplaceParts(Replace(result, used_parts[1].text, used_parts[1].value),
                      Tail(used_parts))

FormatedSeg(is_literal, is_zero, result) ==
    [is_literal |-> is_literal, is_zero |-> is_zero, result |-> result]

\* _format_segment(seg, part_values)
format_segment(seg, part_values) ==
    LET used_parts == SelectSeq(part_values, LAMBDA pv : Contains(seg, pv.text))
        zero_part_count ==
            Len(SelectSeq(used_parts, LAMBDA pv : is_zero_val(pv.part, pv.value)))
        unescaped == Replace(Replace(seg, <<"\\", "[">>, <<"[">>),
                             <<"\\", "]">>, <<"]">>)
        result == ReplaceParts(unescaped, used_parts)
    IN  IF Len(used_parts) = 0 THEN FormatedSeg(TRUE, FALSE, result)
        ELSE IF zero_part_count > 0 /\ zero_part_count = Len(used_parts)
             THEN FormatedSeg(FALSE, TRUE, result)
             ELSE FormatedSeg(FALSE, FALSE, result)

\* _format_segment_tree(segtree, part_values); FormatKids is its loop, from
\* child i on, with is_zero and the joined result_parts so far
RECURSIVE format_segment_tree(_, _)
RECURSIVE FormatKids(_, _, _, _, _)
FormatKids(segtree, part_values, i, is_zero, joined) ==
    IF i > Len(segtree)
    THEN FormatedSeg(FALSE, is_zero, IF is_zero THEN <<>> ELSE joined)
    ELSE LET seg == segtree[i]
             formatted_seg ==
                 IF seg.leaf THEN format_segment(seg.seg, part_values)
                 ELSE format_segment_tree(seg.kids, part_values)
         IN  FormatKids(segtree, part_values, i + 1,
                        IF formatted_seg.is_literal THEN is_zero
                        ELSE is_zero /\ formatted_seg.is_zero,
                        joined \o formatted_seg.result)

format_segment_tree(segtree, part_values) ==
    FormatKids(segtree, part_values, 1, TRUE, <<>>)

\* format_version(vinfo, raw_pattern)
format_version(vinfo, raw_pattern) ==
    LET segtree == parse_segtree(raw_pattern)
    IN  IF segtree.kind # "ok" THEN [kind |-> segtree.kind, str |-> <<>>]
        ELSE [kind |-> "ok",
              str |-> format_segment_tree(segtree.tree,
                                          format_part_values(vinfo)).result]


(***************************************************************************)
(* v2patterns.compile_pattern: the matcher of a template.  A template is   *)
(* read left to right as a sequence of tokens: an optional group opening   *)
(* or closing, a part (the longest that starts there) or a literal.        *)
(***************************************************************************)
Tok(k, v) == [k |-> k, v |-> v]

\* the longest part whose text starts at index i of raw, "" if none does
PartAt(raw, i) ==
    LET starting == SelectSeq(PartsLongestFirst,
                              LAMBDA r : StartsAt(raw, r.text, i))
    IN  IF Len(starting) = 0 THEN "" ELSE starting[1].part

RECURSIVE Tokenize(_, _)
Tokenize(raw, i) ==
    IF i > Len(raw) THEN <<>>
    ELSE IF raw[i] = "\\" /\ i < Len(raw) /\ raw[i + 1] \in {"[", "]"}
         THEN <<Tok("lit", raw[i + 1])>> \o Tokenize(raw, i + 2)
    ELSE IF raw[i] = "[" THEN <<Tok("open", "[")>> \o Tokenize(raw, i + 1)
    ELSE IF raw[i] = "]" THEN <<Tok("close", "]")>> \o Tokenize(raw, i + 1)
    ELSE IF PartAt(raw, i) # ""
         THEN <<Tok("part", PartAt(raw, i))>>
              \o Tokenize(raw, i + Len(P(PartAt(raw, i))))
    ELSE <<Tok("lit", raw[i])>> \o Tokenize(raw, i + 1)

\* the nesting depth after each token; a template compiles when it never
\* closes a group that is not open and leaves none open
RECURSIVE Balanced(_, _, _)
Balanced(tokens, i, depth) ==
    IF i > Len(tokens) THEN depth = 0
    ELSE IF tokens[i].k = "open" THEN Balanced(tokens, i + 1, depth + 1)
    ELSE IF tokens[i].k = "close"
         THEN depth > 0 /\ Balanced(tokens, i + 1, depth - 1)
    ELSE Balanced(tokens, i + 1, depth)

\* the index of the token that closes the group opened at token i
RECURSIVE CloseOf(_, _, _)
CloseOf(tokens, i, depth) ==
    IF tokens[i].k = "close" /\ depth = 1 THEN i
    ELSE CloseOf(tokens, i + 1,
                 IF tokens[i].k = "open" THEN depth + 1
                 ELSE IF tokens[i].k = "close" THEN depth - 1 ELSE depth)

compile_pattern(raw_pattern) ==
    LET tokens == Tokenize(raw_pattern, 1)
    IN  IF Balanced(tokens, 1, 0) THEN [kind |-> "ok", tokens |-> tokens]
        ELSE [kind |-> "CompileError", tokens |-> <<>>]

\* the groups of the matcher: the fields of the parts of the template
GroupNames(tokens) ==
    {PartRec(tokens[i].v).field : i \in {j \in 1..Len(tokens) : tokens[j].k = "part"}}

NumIn(sub, lo, hi) == StrToInt(sub) >= lo /\ StrToInt(sub) <= hi

\* PART_PATTERNS: sub is what the sub-pattern of the part matches
PartMatches(part, sub) ==
    LET n == Len(sub)
        digits == n > 0 /\ IsDigits(sub)
        plain  == digits /\ (n = 1 \/ sub[1] # "0")     \* no leading zero
    IN  CASE part \in {"YYYY", "GGGG"} -> digits /\ n = 4 /\ sub[1] # "0"
          [] part \in {"YY", "GG"}     -> plain /\ n <= 2 /\ sub[1] # "0"
          [] part \in {"0Y", "0G"}     -> digits /\ n = 2
          [] part = "MM"  -> plain /\ NumIn(sub, 1, 12)
          [] part = "0M"  -> digits /\ n = 2 /\ NumIn(sub, 1, 12)
          [] part = "DD"  -> plain /\ NumIn(sub, 1, 31)
          [] part = "0D"  -> digits /\ n = 2 /\ NumIn(sub, 1, 31)
          [] part = "JJJ" -> plain /\ NumIn(sub, 1, 366)
          [] part = "00J" -> digits /\ n = 3 /\ NumIn(sub, 1, 366)
          [] part \in {"WW", "UU"} -> plain /\ NumIn(sub, 0, 53)
          [] part \in {"0W", "0U"} -> digits /\ n = 2 /\ NumIn(sub, 0, 53)
          [] part = "VV"  -> plain /\ NumIn(sub, 1, 53)
          [] part = "0V"  -> digits /\ n = 2 /\ NumIn(sub, 1, 53)
          [] part \in {"MAJOR", "MINOR", "PATCH", "NUM"} -> digits
          [] part = "BUILD" -> digits /\ n >= 4
          [] part = "BLD"   -> digits /\ sub[1] # "0"
          [] part = "RELEASE" ->
                \E t \in {"alpha", "beta", "dev", "rc", "post"} : TagText[t] = sub
          [] part = "PYTAG" ->
                \E t \in {"a", "b", "dev", "rc", "post"} : TagText[t] = sub

\* pattern.regexp.match(version_str) from token i and index pos on, with
\* the groups g matched so far: the first match in the matcher's order (a
\* group is tried before it is skipped, a part takes the longest text first)
RECURSIVE MatchFrom(_, _, _, _, _)
RECURSIVE MatchPart(_, _, _, _, _, _)
MatchFrom(tokens, i, str, pos, g) ==
    IF i > Len(tokens) THEN [ok |-> TRUE, end |-> pos - 1, g |-> g]
    ELSE
      LET tok == tokens[i]
          fail == [ok |-> FALSE, end |-> 0, g |-> g]
      IN  CASE tok.k = "lit" ->
                 IF pos <= Len(str) /\ str[pos] = tok.v
                 THEN MatchFrom(tokens, i + 1, str, pos + 1, g) ELSE fail
            [] tok.k = "open" ->
                 LET taken == MatchFrom(tokens, i + 1, str, pos, g)
                 IN  IF taken.ok THEN taken
                     ELSE MatchFrom(tokens, CloseOf(tokens, i + 1, 1) + 1,
                                    str, pos, g)
            [] tok.k = "close" -> MatchFrom(tokens, i + 1, str, pos, g)
            [] tok.k = "part" ->
                 MatchPart(tokens, i, str, pos, g, Len(str) - pos + 1)

MatchPart(tokens, i, str, pos, g, n) ==
    IF n < 1 THEN [ok |-> FALSE, end |-> 0, g |-> g]
    ELSE
      LET sub == SubSeq(str, pos, pos + n - 1)
          field == PartRec(tokens[i].v).field
          rest == MatchFrom(tokens, i + 1, str, pos + n,
                            [g EXCEPT ![field] = sub])
      IN  IF PartMatches(tokens[i].v, sub) /\ rest.ok THEN rest
          ELSE MatchPart(tokens, i, str, pos, g, n - 1)

\* match.groupdict(): a group that took no part in the match is None
regexp_match(tokens, version_str) ==
    MatchFrom(tokens, 1, version_str, 1,
              [f \in GroupNames(tokens) |-> NoneStr])

\* parse_version_info from the match on: the two PatternErrors, or the
\* fields of the groups
parse_matched(version_str, match) ==
    IF ~match.ok THEN [kind |-> "PatternError", vinfo |-> NoVinfo]
    ELSE IF match.end < Len(version_str)
         THEN [kind |-> "PatternError", vinfo |-> NoVinfo]
    ELSE parse_field_values_to_vinfo(match.g)

\* parse_version_info from the compiled pattern on
parse_compiled(version_str, pattern) ==
    IF pattern.kind # "ok" THEN [kind |-> pattern.kind, vinfo |-> NoVinfo]
    ELSE parse_matched(version_str, regexp_match(pattern.tokens, version_str))

\* parse_version_info(version_str, raw_pattern)
parse_version_info(version_str, raw_pattern) ==
    parse_compiled(version_str, compile_pattern(raw_pattern))

\* the try statement of is_valid around a parse that ended as kind
is_valid_of(kind) ==
    IF kind = "ok" THEN [kind |-> "ok", value |-> TRUE]
    ELSE IF kind = "PatternError" THEN [kind |-> "ok", value |-> FALSE]
    ELSE [kind |-> kind, value |-> FALSE]

\* is_valid(version_str, raw_pattern): True, False, or the exception that
\* is_valid does not catch
is_valid(version_str, raw_pattern) ==
    is_valid_of(parse_version_info(version_str, raw_pattern).kind)


(***************************************************************************)
(* The incrementer.                                                        *)
(***************************************************************************)
\* fields_by_index for one segment: the parts that segment.find(part)
\* finds, longest part first, each with the index it is found at
RECURSIVE FoundParts(_, _)
FoundParts(segment, parts) ==
    IF Len(parts) = 0 THEN <<>>
    ELSE LET idx == Find(segment, parts[1].text)
         IN  (IF idx >= 0 THEN <<[idx |-> idx, field |-> parts[1].field]>>
              ELSE <<>>)
             \o FoundParts(segment, Tail(parts))

\* the fields of one segment sorted by index; of two parts found at one
\* index the later one of the loop is kept
RECURSIVE SegmentFields(_, _, _)
SegmentFields(found, idx, len) ==
    IF idx >= len THEN <<>>
    ELSE LET here == SelectSeq(found, LAMBDA e : e.idx = idx)
         IN  (IF Len(here) = 0 THEN <<>> ELSE <<here[Len(here)].field>>)
             \o SegmentFields(found, idx + 1, len)

RECURSIVE FieldsOfSegments(_)
FieldsOfSegments(segments) ==
    IF Len(segments) = 0 THEN <<>>
    ELSE SegmentFields(FoundParts(segments[1], PartsLongestFirst), 0,
                       Len(segments[1]))
         \o FieldsOfSegments(Tail(segments))

\* _parse_pattern_fields(raw_pattern): the fields in template order
parse_pattern_fields(raw_pattern) ==
    FieldsOfSegments(iter_flat_segtree(parse_segtree(raw_pattern).tree))

\* every field with an initial value is reset once any field of the
\* template changed, wherever it stands
iter_reset_anywhere(fields, old_vinfo, cur_vinfo, has_reset) ==
    IF \E i \in DOMAIN fields : old_vinfo[fields[i]] # cur_vinfo[fields[i]]
    THEN {fields[i] : i \in {j \in DOMAIN fields : fields[j] \in DOMAIN V2_FIELD_INITIAL_VALUES}}
    ELSE {}

\* _iter_reset_field_items(fields, old_vinfo, cur_vinfo): the fields to reset
RECURSIVE iter_reset_field_items(_, _, _, _)
iter_reset_field_items(fields, old_vinfo, cur_vinfo, has_reset) ==
    IF Len(fields) = 0 THEN {}
    ELSE LET field == fields[1]
             has_initial == field \in DOMAIN V2_FIELD_INITIAL_VALUES
         IN  IF has_reset /\ has_initial
             THEN {field} \cup iter_reset_field_items(Tail(fields), old_vinfo,
                                                      cur_vinfo, has_reset)
             ELSE iter_reset_field_items(
                      Tail(fields), old_vinfo, cur_vinfo,
                      has_reset \/ old_vinfo[field] # cur_vinfo[field])

\* lexid.next_id(prev_id): the next id, at least as wide as prev_id
next_id(prev_id) == ZeroPad(IntToStr(StrToInt(prev_id) + 1), Len(prev_id))

\* the bid that _incr_numeric hands to lexid.next_id
RaisedBid(bid) ==
    IF StrToInt(bid) < 1000 THEN IntToStr(StrToInt(bid) + 1000) ELSE bid

\* the tag assignment with the counter of the old release track kept
assign_tag_keep_num(cur_vinfo, tag, reset_fields) ==
    IF tag # "" /\ "tag" \notin reset_fields
    THEN [cur_vinfo EXCEPT !.tag = tag]
    ELSE cur_vinfo

\* the last statement of _incr_numeric: "if tag and 'tag' not in reset_fields"
assign_tag(cur_vinfo, tag, reset_fields) ==
    IF tag # "" /\ "tag" \notin reset_fields
    THEN [cur_vinfo EXCEPT !.num = IF tag # cur_vinfo.tag THEN 0
                                   ELSE cur_vinfo.num,
                           !.tag = tag]
    ELSE cur_vinfo

\* cur_kwargs.update(reset_fields)
update_reset_fields(cur_vinfo, reset_fields) ==
    [f \in VinfoFields |->
        IF f \in reset_fields THEN V2_FIELD_INITIAL_VALUES[f] ELSE cur_vinfo[f]]

\* the bid, inc0 and inc1 of _incr_numeric
incr_counters(cur_vinfo, reset_fields) ==
    [cur_vinfo EXCEPT
        !.bid = next_id(RaisedBid(cur_vinfo.bid)),
        !.inc0 = IF "inc0" \in reset_fields THEN 0 ELSE cur_vinfo.inc0 + 1,
        !.inc1 = IF "inc1" \in reset_fields THEN 1 ELSE cur_vinfo.inc1 + 1]

\* "if major and 'major' not in reset_fields"
bump_major(cur_vinfo, major, reset_fields) ==
    IF major /\ "major" \notin reset_fields
    THEN [cur_vinfo EXCEPT !.major = cur_vinfo.major + 1, !.minor = 0, !.patch = 0]
    ELSE cur_vinfo

\* "if minor and 'minor' not in reset_fields"
bump_minor(cur_vinfo, minor, reset_fields) ==
    IF minor /\ "minor" \notin reset_fields
    THEN [cur_vinfo EXCEPT !.minor = cur_vinfo.minor + 1, !.patch = 0]
    ELSE cur_vinfo

\* "if patch and 'patch' not in reset_fields"
bump_patch(cur_vinfo, patch, reset_fields) ==
    IF patch /\ "patch" \notin reset_fields
    THEN [cur_vinfo EXCEPT !.patch = cur_vinfo.patch + 1]
    ELSE cur_vinfo

\* "if release_num and 'release_num' not in reset_fields"
bump_release_num(cur_vinfo, release_num, reset_fields) ==
    IF release_num /\ "release_num" \notin reset_fields
    THEN [cur_vinfo EXCEPT !.num = cur_vinfo.num + 1]
    ELSE cur_vinfo

\* _incr_numeric once reset_fields is known
incr_numeric_with(reset_fields, cur_vinfo, major, minor, patch, tag, release_num) ==
    IF cur_vinfo.bid = NoneStr
    THEN \* int(None)
         [kind |-> "TypeError", vinfo |-> NoVinfo, reset_fields |-> reset_fields]
    ELSE [kind |-> "ok",
          vinfo |->
            assign_tag(
              bump_release_num(
                bump_patch(
                  bump_minor(
                    bump_major(
                      incr_counters(update_reset_fields(cur_vinfo, reset_fields),
                                    reset_fields),
                      major, reset_fields),
                    minor, reset_fields),
                  patch, reset_fields),
                release_num, reset_fields),
              tag, reset_fields),
          reset_fields |-> reset_fields]

\* _incr_numeric(raw_pattern, old_vinfo, cur_vinfo, major, minor, patch,
\*               tag, release_num)
incr_numeric(raw_pattern, old_vinfo, cur_vinfo, major, minor, patch, tag, release_num) ==
    incr_numeric_with(
        iter_reset_field_items(parse_pattern_fields(raw_pattern), old_vinfo,
                               cur_vinfo, FALSE),
        cur_vinfo, major, minor, patch, tag, release_num)

ContainsAny(raw_pattern, parts) == \E part \in parts : Contains(raw_pattern, P(part))

\* the week rule with the two week lists taken for each other
is_valid_week_pattern_swapped(raw_pattern) ==
    LET has_yy_part == ContainsAny(raw_pattern, {"YYYY", "YY", "0Y"})
        has_ww_part == ContainsAny(raw_pattern, {"WW", "0W", "UU", "0U"})
        has_gg_part == ContainsAny(raw_pattern, {"GGGG", "GG", "0G"})
        has_vv_part == ContainsAny(raw_pattern, {"VV", "0V"})
    IN  IF has_yy_part /\ has_ww_part THEN FALSE
        ELSE IF has_gg_part /\ has_vv_part THEN FALSE
        ELSE TRUE

\* is_valid_week_pattern(raw_pattern)
is_valid_week_pattern(raw_pattern) ==
    LET has_yy_part == ContainsAny(raw_pattern, {"YYYY", "YY", "0Y"})
        has_ww_part == ContainsAny(raw_pattern, {"WW", "0W", "UU", "0U"})
        has_gg_part == ContainsAny(raw_pattern, {"GGGG", "GG", "0G"})
        has_vv_part == ContainsAny(raw_pattern, {"VV", "0V"})
    IN  IF has_yy_part /\ has_vv_part THEN FALSE
        ELSE IF has_gg_part /\ has_ww_part THEN FALSE
        ELSE TRUE

\* what one call of incr did: the steps it reached, in order, and the
\* values it computed on the way
IncrResult(kind, value, steps, old_vinfo, dated_vinfo, new_vinfo, reset_fields) ==
    [kind |-> kind, value |-> value, steps |-> steps,
     old_vinfo |-> old_vinfo, dated_vinfo |-> dated_vinfo,
     new_vinfo |-> new_vinfo, reset_fields |-> reset_fields]

\* old_vinfo._replace(**cur_cinfo._asdict())
ReplaceCal(vinfo, cinfo) ==
    [f \in VinfoFields |-> IF f \in CalFieldSet THEN cinfo[f] ELSE vinfo[f]]

\* the calendar values incr gives the new version: those of old_vinfo when
\* the date is pinned, those of date otherwise
cur_cinfo_unpinned(old_vinfo, pin_date, date) == cal_info(date)

cur_cinfo_of(old_vinfo, pin_date, date) ==
    IF pin_date THEN ver_to_cal_info(old_vinfo) ELSE cal_info(date)

\* the cur_vinfo that incr hands to _incr_numeric
dated_vinfo(old_vinfo, cur_cinfo) ==
    IF is_cal_gt(old_vinfo, cur_cinfo) THEN old_vinfo
    ELSE ReplaceCal(old_vinfo, cur_cinfo)

\* the end of incr: new_version is compared with old_version
incr_formatted(steps, old_version, old_vinfo, dated, bumped, formatted) ==
    IF formatted.kind # "ok"
    THEN IncrResult(formatted.kind, <<>>, steps, old_vinfo, dated,
                    bumped.vinfo, bumped.reset_fields)
    ELSE IF formatted.str = old_version
    THEN IncrResult("None", <<>>, steps, old_vinfo, dated, bumped.vinfo,
                    bumped.reset_fields)
    ELSE IncrResult("str", formatted.str, steps, old_vinfo, dated,
                    bumped.vinfo, bumped.reset_fields)

\* incr after _incr_numeric
incr_bumped(steps, old_version, raw_pattern, old_vinfo, dated, bumped) ==
    IF bumped.kind # "ok"
    THEN IncrResult(bumped.kind, <<>>, Append(steps, "_incr_numeric"),
                    old_vinfo, dated, NoVinfo, bumped.reset_fields)
    ELSE incr_formatted(Append(Append(steps, "_incr_numeric"), "format_version"),
                        old_version, old_vinfo, dated, bumped,
                        format_version(bumped.vinfo, raw_pattern))

\* incr after the calendar values are chosen
incr_dated(steps, old_version, raw_pattern, old_vinfo, dated, tag, major, minor, patch, release_num) ==
    incr_bumped(steps, old_version, raw_pattern, old_vinfo, dated,
                incr_numeric(raw_pattern, old_vinfo, dated, major, minor,
                             patch, tag, release_num))

\* incr after parse_version_info: a PatternError is caught and None
\* returned, any other exception goes on to the caller
incr_parsed(steps, old_version, raw_pattern, parsed, tag, major, minor, patch, release_num, pin_date, date) ==
    IF parsed.kind = "PatternError"
    THEN IncrResult("None", <<>>, steps, NoVinfo, NoVinfo, NoVinfo, {})
    ELSE IF parsed.kind # "ok"
    THEN IncrResult(parsed.kind, <<>>, steps, NoVinfo, NoVinfo, NoVinfo, {})
    ELSE incr_dated(steps, old_version, raw_pattern, parsed.vinfo,
                    dated_vinfo(parsed.vinfo,
                                cur_cinfo_of(parsed.vinfo, pin_date, date)),
                    tag, major, minor, patch, release_num)

\* incr from its try statement on; steps are the steps incr has reached
incr_from(steps, old_version, raw_pattern, tag, major, minor, patch, release_num, pin_date, date) ==
    incr_parsed(Append(steps, "parse_version_info"), old_version, raw_pattern,
                parse_version_info(old_version, raw_pattern),
                tag, major, minor, patch, release_num, pin_date, date)

\* the week rule checked on what incr_from has done
week_rule_after(done, raw_pattern) ==
    IF done.steps = <<"parse_version_info">> THEN done
    ELSE IF ~is_valid_week_pattern(raw_pattern)
    THEN IncrResult("None", <<>>,
                    <<"parse_version_info", "is_valid_week_pattern">>,
                    NoVinfo, NoVinfo, NoVinfo, {})
    ELSE done

\* incr with the week rule checked after old_version is parsed
incr_parse_first(old_version, raw_pattern, tag, major, minor, patch, release_num, pin_date, date) ==
    week_rule_after(incr_from(<<>>, old_version, raw_pattern, tag, major,
                              minor, patch, release_num, pin_date, date),
                    raw_pattern)

\* incr(old_version, raw_pattern, tag=, major=, minor=, patch=,
\*      release_num=, pin_date=, date=): kind "None" is the return of None,
\* "str" the return of the new version, anything else the exception raised
incr(old_version, raw_pattern, tag, major, minor, patch, release_num, pin_date, date) ==
    IF ~is_valid_week_pattern(raw_pattern)
    THEN IncrResult("None", <<>>, <<"is_valid_week_pattern">>,
                    NoVinfo, NoVinfo, NoVinfo, {})
    ELSE incr_from(<<"is_valid_week_pattern">>, old_version, raw_pattern, tag,
                   major, minor, patch, release_num, pin_date, date)


(***************************************************************************)
(* The inputs the model draws from: templates, the version strings a       *)
(* project may hold for each, the arguments of incr and the version        *)
(* values handed to format_version.                                        *)
(***************************************************************************)
TDefault  == <<"v", "Y", "Y", "Y", "Y", "0", "M", ".", "B", "U", "I", "L", "D", "[", "-", "R", "E", "L", "E", "A", "S", "E", "]">>
TSemver   == <<"v", "M", "A", "J", "O", "R", ".", "M", "I", "N", "O", "R", ".", "P", "A", "T", "C", "H">>
TOptional == <<"v", "M", "A", "J", "O", "R", "[", ".", "M", "I", "N", "O", "R", "[", ".", "P", "A", "T", "C", "H", "[", "-", "R", "E", "L", "E", "A", "S", "E", "[", "N", "U", "M", "]", "]", "]", "]">>
TPep440   == <<"v", "Y", "Y", ".", "B", "L", "D", "[", "-", "P", "Y", "T", "A", "G", "N", "U", "M", "]">>
TDate     == <<"v", "Y", "Y", "Y", "Y", "0", "M", "0", "D">>
TYearSem  == <<"v", "Y", "Y", "Y", "Y", ".", "M", "A", "J", "O", "R", "[", "-", "R", "E", "L", "E", "A", "S", "E", "N", "U", "M", "]">>
TPytag    == <<"v", "M", "A", "J", "O", "R", "P", "Y", "T", "A", "G", "N", "U", "M">>
TIsoWeek  == <<"v", "G", "G", "G", "G", "w", "V", "V", ".", "B", "L", "D">>
TBadWeek  == <<"v", "Y", "Y", "Y", "Y", "w", "V", "V", ".", "B", "U", "I", "L", "D">>
TBadWeek2 == <<"G", "G", "G", "G", "0", "W", "[", ".", "M", "A", "J", "O", "R">>
TBadWeek3 == <<"v", "0", "Y", ".", "0", "V">>
TBadWeek4 == <<"v", "G", "G", ".", "U", "U">>
TGregWeek == <<"v", "Y", "Y", "Y", "Y", ".", "0", "W">>
TUnclosed == <<"v", "M", "A", "J", "O", "R", "[", ".", "M", "I", "N", "O", "R">>
TLiteral  == <<"r", "e", "l">>
TMajorYear == <<"v", "M", "A", "J", "O", "R", ".", "Y", "Y", "Y", "Y", ".", "P", "A", "T", "C", "H">>
TSiblings == <<"v", "M", "A", "J", "O", "R", "[", ".", "M", "I", "N", "O", "R", "[", ".", "P", "A", "T", "C", "H", "]", "[", "-", "R", "E", "L", "E", "A", "S", "E", "]", "]">>
TTwoGroups == <<"v", "M", "A", "J", "O", "R", "[", ".", "M", "I", "N", "O", "R", "]", "[", ".", "P", "A", "T", "C", "H", "]">>

Templates ==
    {TDefault, TSemver, TOptional, TPep440, TDate, TYearSem, TPytag,
     TIsoWeek, TBadWeek, TBadWeek2, TBadWeek3, TBadWeek4, TGregWeek,
     TUnclosed, TLiteral, TMajorYear}

\* version strings written for a template (some match it, some do not)
VersionsFor(t) ==
    CASE t = TDefault  -> {<<"v", "2", "0", "1", "7", "1", "2", ".", "0", "0", "3", "3", "-", "b", "e", "t", "a">>, <<"v", "2", "0", "1", "7", "1", "2", ".", "0", "0", "0", "3", "3">>, <<"v", "2", "0", "1", "7", "1", "2", ".", "1", "0", "3", "3", "-", "r", "c", "1">>}
      [] t = TSemver   -> {<<"v", "1", ".", "2", ".", "3">>, <<"v", "0", ".", "0", ".", "0">>, <<"v", "0", "1", ".", "2", ".", "3">>, <<"v", "1", ".", "2", ".", "3", "-", "r", "c">>}
      [] t = TOptional -> {<<"v", "1", ".", "0", ".", "0", "-", "r", "c", "2">>, <<"v", "1", ".", "0">>, <<"v", "1", ".", "2", "-", "b", "e", "t", "a">>}
      [] t = TPep440   -> {<<"v", "1", "7", ".", "3", "3", "b", "0">>, <<"v", "1", "7", ".", "3", "3", "-", "b", "0">>, <<"v", "7", ".", "1", "0", "3", "3">>}
      [] t = TDate     -> {<<"v", "2", "0", "1", "7", "1", "2", "3", "1">>, <<"v", "2", "0", "2", "1", "0", "2", "3", "1">>, <<"v", "2", "0", "1", "7", "1", "3", "0", "1">>}
      [] t = TYearSem  -> {<<"v", "2", "0", "1", "7", ".", "1", "-", "r", "c", "2">>, <<"v", "2", "0", "1", "7", ".", "1">>, <<"v", "2", "0", "1", "8", ".", "2", "-", "b", "e", "t", "a", "0">>}
      [] t = TPytag    -> {<<"v", "1", "a", "0">>, <<"v", "1", "0">>}
      [] t = TIsoWeek  -> {<<"v", "2", "0", "1", "7", "w", "5", "2", ".", "1", "0", "3", "3">>, <<"v", "2", "0", "1", "7", "w", "5", "4", ".", "1", "0", "3", "3">>}
      [] t = TBadWeek  -> {<<"v", "2", "0", "1", "7", "w", "5", "2", ".", "1", "0", "3", "3">>, <<"v", "2", "0", "1", "7">>}
      [] t = TBadWeek2 -> {<<"2", "0", "1", "7", "5", "2">>, <<"v", "1">>}
      [] t = TBadWeek3 -> {<<"v", "1", "7", ".", "5", "2">>}
      [] t = TBadWeek4 -> {<<"v", "1", "7", ".", "5">>}
      [] t = TGregWeek -> {<<"v", "2", "0", "1", "7", ".", "5", "2">>}
      [] t = TUnclosed -> {<<"v", "1", ".", "2">>, <<"v", "1">>}
      [] t = TLiteral  -> {<<"r", "e", "l">>, <<"v", "1">>}
      [] t = TMajorYear -> {<<"v", "1", ".", "2", "0", "1", "7", ".", "3">>}
      [] t = TSiblings -> {<<"v", "1", ".", "2", "-", "r", "c">>, <<"v", "1", ".", "2", ".", "0", "-", "r", "c">>}
      [] t = TTwoGroups -> {<<"v", "1", ".", "2">>, <<"v", "1", ".", "0", ".", "2">>}

\* the dates "today" may be
Dates == {MkDate(2017, 1, 1), MkDate(2018, 1, 1)}

\* the release names a caller may ask for ("" is no tag)
Tags == {"", "rc"}

Calls ==
    [tag : Tags, major : BOOLEAN, minor : BOOLEAN, patch : BOOLEAN,
     release_num : BOOLEAN, pin_date : BOOLEAN, date : Dates]

NoCall ==
    [tag |-> "", major |-> FALSE, minor |-> FALSE, patch |-> FALSE,
     release_num |-> FALSE, pin_date |-> FALSE, date |-> MkDate(1, 1, 1)]

NoResult == IncrResult("idle", <<>>, <<>>, NoVinfo, NoVinfo, NoVinfo, {})

\* a V2VersionInfo with the defaults of parse_field_values_to_vinfo
BaseVinfo ==
    [NoVinfo EXCEPT !.major = 0, !.minor = 0, !.patch = 0, !.num = 0,
                    !.bid = <<"1", "0", "0", "0">>, !.tag = "final", !.pytag = "",
                    !.inc0 = 0, !.inc1 = 1]

\* the version values handed to format_version
Vinfos ==
    { BaseVinfo,
      [BaseVinfo EXCEPT !.major = 1],
      [BaseVinfo EXCEPT !.major = 1, !.minor = 2, !.patch = 3],
      [BaseVinfo EXCEPT !.major = 1, !.patch = 3, !.tag = "rc", !.pytag = "rc", !.num = 2],
      [BaseVinfo EXCEPT !.major = 1, !.tag = "beta", !.pytag = "b"],
      [BaseVinfo EXCEPT !.num = 1],
      [BaseVinfo EXCEPT !.year_y = 2017, !.month = 12, !.bid = <<"0", "0", "3", "3">>,
                        !.tag = "beta", !.pytag = "b"],
      [BaseVinfo EXCEPT !.year_y = 2007, !.bid = <<"1", "0", "3", "3">>],
      [BaseVinfo EXCEPT !.year_y = 2017, !.major = 0],
      ReplaceCal([BaseVinfo EXCEPT !.bid = <<"0", "0", "3", "3">>, !.tag = "beta", !.pytag = "b"],
                 cal_info(MkDate(2007, 12, 31))),
      ReplaceCal(BaseVinfo, cal_info(MkDate(2017, 1, 1))) }

NoRoundTrip ==
    [vinfo |-> NoVinfo, formatted |-> [kind |-> "idle", str |-> <<>>],
     parsed |-> [kind |-> "idle", vinfo |-> NoVinfo]]

NoValid ==
    [version_str |-> <<>>, result |-> [kind |-> "idle", value |-> FALSE],
     parsed |-> "idle", matched |-> FALSE, match_len |-> 0]

NoSegtree ==
    [result |-> [kind |-> "idle", tree |-> <<>>], flat |-> <<>>]

NoParsedCinfo ==
    [fvals |-> <<>>, result |-> [kind |-> "idle", cinfo |-> NoCinfo]]

(***************************************************************************)
(* The state machine: a project holds a template and its current version;  *)
(* a caller runs incr on it and writes the version incr returned back, or  *)
(* applies one of the pure functions.                                      *)
(***************************************************************************)
VARIABLES
    raw_pattern,    \* the template of the project
    version,        \* the current version string of the project
    n_incr,         \* the number of incr calls made so far
    op,             \* the operation whose result the state holds
    call,           \* the arguments of the last incr
    result,         \* what the last incr did
    round_trip,     \* the last format_version and the parse of its output
    valid,          \* the last is_valid
    week_ok,        \* the last is_valid_week_pattern
    segtree,        \* the last _parse_segtree
    cinfo           \* the last parse_field_values_to_cinfo

vars == <<raw_pattern, version, n_incr, op, call, result, round_trip, valid, week_ok, segtree, cinfo>>

Init ==
    /\ raw_pattern \in Templates
    /\ version \in VersionsFor(raw_pattern)
    /\ n_incr = 0
    /\ op = "idle"
    /\ call = NoCall
    /\ result = NoResult
    /\ round_trip = NoRoundTrip
    /\ valid = NoValid
    /\ week_ok = TRUE
    /\ segtree = NoSegtree
    /\ cinfo = NoParsedCinfo

\* a caller runs incr(version, raw_pattern, ...)
Incr ==
    /\ op = "idle"
    /\ n_incr < MaxIncr
    /\ \E c \in Calls :
         /\ call' = c
         /\ result' = incr(version, raw_pattern, c.tag, c.major, c.minor,
                           c.patch, c.release_num, c.pin_date, c.date)
    /\ op' = "incr"
    /\ n_incr' = n_incr + 1
    /\ UNCHANGED <<raw_pattern, version, round_trip, valid, week_ok, segtree, cinfo>>

\* the caller writes the version that incr returned back to the project
Rewrite ==
    /\ op = "incr"
    /\ version' = IF result.kind = "str" THEN result.value ELSE version
    /\ op' = "idle"
    /\ call' = NoCall
    /\ result' = NoResult
    /\ UNCHANGED <<raw_pattern, n_incr, round_trip, valid, week_ok, segtree, cinfo>>

\* what FormatParse keeps of format_version(vinfo, raw_pattern)
RoundTripOf(vinfo, formatted, t) ==
    [vinfo |-> vinfo, formatted |-> formatted,
     parsed |-> IF formatted.kind = "ok"
                THEN parse_version_info(formatted.str, t)
                ELSE [kind |-> "idle", vinfo |-> NoVinfo]]

\* format_version of a version value, and parse_version_info of its output
FormatParse ==
    /\ op = "idle"
    /\ \E vinfo \in Vinfos \cup {parse_version_info(version, raw_pattern).vinfo} :
         /\ vinfo # NoVinfo
         /\ round_trip' = RoundTripOf(vinfo, format_version(vinfo, raw_pattern),
                                      raw_pattern)
    /\ op' = "format_parse"
    /\ UNCHANGED <<raw_pattern, version, n_incr, call, result, valid, week_ok, segtree, cinfo>>

\* what IsValid keeps of is_valid(version_str, raw_pattern): its result,
\* how parse_version_info ended and what the matcher matched
ValidOf(version_str, parsed, match) ==
    [version_str |-> version_str,
     result |-> is_valid_of(parsed.kind),
     parsed |-> parsed.kind,
     matched |-> match.ok,
     match_len |-> IF match.ok THEN match.end ELSE 0]

\* the match of the compiled pattern, no match when it does not compile
MatchOf(pattern, version_str) ==
    IF pattern.kind = "ok" THEN regexp_match(pattern.tokens, version_str)
    ELSE [ok |-> FALSE, end |-> 0, g |-> <<>>]

\* is_valid(version_str, raw_pattern), beside what parse_version_info and
\* the matcher do on the same input
IsValid ==
    /\ op = "idle"
    /\ \E version_str \in VersionsFor(raw_pattern) \cup {version} :
         valid' = ValidOf(version_str,
                          parse_version_info(version_str, raw_pattern),
                          MatchOf(compile_pattern(raw_pattern), version_str))
    /\ op' = "is_valid"
    /\ UNCHANGED <<raw_pattern, version, n_incr, call, result, round_trip, week_ok, segtree, cinfo>>

\* is_valid_week_pattern(raw_pattern)
CheckWeekPattern ==
    /\ op = "idle"
    /\ week_ok' = is_valid_week_pattern(raw_pattern)
    /\ op' = "week"
    /\ UNCHANGED <<raw_pattern, version, n_incr, call, result, round_trip, valid, segtree, cinfo>>

\* the result of a pure function is dropped
Return ==
    /\ op \in {"format_parse", "is_valid", "week", "rerender", "segtree", "cinfo"}
    /\ op' = "idle"
    /\ round_trip' = NoRoundTrip
    /\ valid' = NoValid
    /\ week_ok' = TRUE
    /\ segtree' = NoSegtree
    /\ cinfo' = NoParsedCinfo
    /\ UNCHANGED <<raw_pattern, version, n_incr, call, result>>

Next ==
    \/ Incr
    \/ Rewrite
    \/ FormatParse
    \/ IsValid
    \/ CheckWeekPattern
    \/ Return

Spec == Init /\ [][Next]_vars

(***************************************************************************)
(* The formatter on its own: format_version of the version values and of   *)
(* the versions parsed under any template, under templates that also have  *)
(* optional groups side by side.                                           *)
(***************************************************************************)
FormatTemplates == Templates \cup {TSiblings, TTwoGroups}

InitFormat ==
    /\ raw_pattern \in FormatTemplates
    /\ version \in VersionsFor(raw_pattern)
    /\ n_incr = 0
    /\ op = "idle"
    /\ call = NoCall
    /\ result = NoResult
    /\ round_trip = NoRoundTrip
    /\ valid = NoValid
    /\ week_ok = TRUE
    /\ segtree = NoSegtree
    /\ cinfo = NoParsedCinfo

\* format_version(parse_version_info(version_str, other), raw_pattern): a
\* version parsed under one template is rendered under another
Rerender ==
    /\ op = "idle"
    /\ \E other \in FormatTemplates :
         \E version_str \in VersionsFor(other) :
            LET parsed == parse_version_info(version_str, other)
            IN  /\ parsed.kind = "ok"
                /\ round_trip' = RoundTripOf(parsed.vinfo,
                                             format_version(parsed.vinfo, raw_pattern),
                                             raw_pattern)
    /\ op' = "rerender"
    /\ UNCHANGED <<raw_pattern, version, n_incr, call, result, valid, week_ok, segtree, cinfo>>

NextFormat ==
    \/ FormatParse
    \/ Rerender
    \/ Return

SpecFormat == InitFormat /\ [][NextFormat]_vars

(***************************************************************************)
(* The calendar parser on its own: parse_field_values_to_cinfo of the      *)
(* groups a match may give for the calendar fields, consistent with each   *)
(* other or not.                                                           *)
(***************************************************************************)
\* the text matched for each calendar field, <<>> for a field that is not
\* in the dict
CalFieldTexts ==
    [year_y : {<<>>, <<"2", "0", "1", "7">>, <<"2", "0", "2", "0">>},
     year_g : {<<>>, <<"2", "0", "1", "6">>},
     quarter : {<<>>, <<"1">>},
     month : {<<>>, <<"0", "2">>, <<"1", "2">>},
     dom : {<<>>, <<"0", "1">>, <<"2", "9">>},
     doy : {<<>>, <<"0", "6", "0">>},
     week_w : {<<>>, <<"0", "9">>},
     week_u : {<<>>},
     week_v : {<<>>, <<"5", "2">>}]

\* the dict of the fields that have a text
FieldValuesOf(texts) ==
    [k \in {f \in CalFieldSet : texts[f] # <<>>} |-> texts[k]]

InitCinfo == Init /\ raw_pattern = TLiteral

\* parse_field_values_to_cinfo(field_values)
ParseFieldValues ==
    /\ op = "idle"
    /\ \E texts \in CalFieldTexts :
         cinfo' = [fvals |-> FieldValuesOf(texts),
                   result |-> parse_field_values_to_cinfo(FieldValuesOf(texts))]
    /\ op' = "cinfo"
    /\ UNCHANGED <<raw_pattern, version, n_incr, call, result, round_trip, valid, week_ok, segtree>>

NextCinfo ==
    \/ ParseFieldValues
    \/ Return

SpecCinfo == InitCinfo /\ [][NextCinfo]_vars

(***************************************************************************)
(* The segment tree on its own: _parse_segtree of every short template     *)
(* over a letter, the two brackets and the escape character, and of the    *)
(* templates of its doctests.                                              *)
(***************************************************************************)
SegAlphabet == {"a", "[", "]", "\\"}

TDoctest == <<"a", "a", "[", "b", "b", "[", "c", "c", "]", "d", "d", "[", "e", "e", "]", "f", "f", "]", "g", "g">>
TDoctestNested == <<"a", "a", "[", "b", "b", "[", "c", "c", "]", "]">>

SegTemplates ==
    UNION {[1..n -> SegAlphabet] : n \in 0..MaxSegLen} \cup {TDoctest, TDoctestNested}

InitSegtree ==
    /\ raw_pattern \in SegTemplates
    /\ version = <<>>
    /\ n_incr = 0
    /\ op = "idle"
    /\ call = NoCall
    /\ result = NoResult
    /\ round_trip = NoRoundTrip
    /\ valid = NoValid
    /\ week_ok = TRUE
    /\ segtree = NoSegtree
    /\ cinfo = NoParsedCinfo

\* what ParseSegtree keeps of _parse_segtree(raw_pattern): the tree or the
\* error, and the tree flattened
SegtreeOf(parsed) ==
    [result |-> parsed,
     flat |-> IF parsed.kind = "ok" THEN iter_flat_segtree(parsed.tree) ELSE <<>>]

\* _parse_segtree(raw_pattern) and _iter_flat_segtree of its tree
ParseSegtree ==
    /\ op = "idle"
    /\ segtree' = SegtreeOf(parse_segtree(raw_pattern))
    /\ op' = "segtree"
    /\ UNCHANGED <<raw_pattern, version, n_incr, call, result, round_trip, valid, week_ok, cinfo>>

NextSegtree ==
    \/ ParseSegtree
    \/ Return

SpecSegtree == InitSegtree /\ [][NextSegtree]_vars

(***************************************************************************)
(* The properties of the version-pattern engine.                           *)
(***************************************************************************)
\* the fields a template references, and whether it references one of fs
ReferencedFields(t) ==
    {parse_pattern_fields(t)[i] : i \in DOMAIN parse_pattern_fields(t)}

\* the fields of a version value that are not at their zero value
NonZeroFields(vinfo) == {f \in VinfoFields : vinfo[f] # BaseVinfo[f]}

\* tag and pytag are one piece of information: either part references it
Covers(t, f) ==
    \/ f \in ReferencedFields(t)
    \/ f \in {"tag", "pytag"} /\ ReferencedFields(t) \cap {"tag", "pytag"} # {}

\* C1: round trip. For every template and every VersionInfo whose non-zero
\* fields are all referenced by the template, format_version succeeds,
\* parse_version_info of its output succeeds, and the parsed value equals
\* the VersionInfo on every field the template references.
C1_RoundTrip ==
    (/\ op = "format_parse"
     /\ \A f \in NonZeroFields(round_trip.vinfo) : Covers(raw_pattern, f))
    => /\ round_trip.formatted.kind = "ok"
       /\ round_trip.parsed.kind = "ok"
       /\ \A f \in ReferencedFields(raw_pattern) :
             round_trip.parsed.vinfo[f] = round_trip.vinfo[f]

\* a bid as the list of its digits, which compares as the string does
BidDigits(bid) == [i \in 1..Len(bid) |-> DigitVal(bid[i])]

\* C2: build id monotonicity. After every successful incr the bid of the
\* new version is numerically greater than the bid of old_version, greater
\* as a string of the same length, has no fewer digits, and is the next id
\* of the old bid raised by 1000 when it was below 1000.
C2_BidMonotone ==
    (op = "incr" /\ result.kind = "str")
    => LET old_bid == result.old_vinfo.bid
           new_bid == result.new_vinfo.bid
       IN  /\ StrToInt(new_bid) > StrToInt(old_bid)
           /\ Len(new_bid) >= Len(old_bid)
           /\ Len(new_bid) = Len(old_bid)
                 => ListGt(BidDigits(new_bid), BidDigits(old_bid))
           /\ StrToInt(old_bid) < 1000
                 => StrToInt(new_bid) = StrToInt(old_bid) + 1000 + 1

\* the inputs incr is expected to refuse: old_version does not fully match
\* the template, the template has unbalanced brackets or fails the week
\* rule, or the calendar fields of old_version are not a real date
ExpectedInvalid(version_str, t) ==
    \/ ~is_valid_week_pattern(t)
    \/ parse_version_info(version_str, t).kind
          \in {"PatternError", "CompileError", "ValueError"}

\* C3: failure semantics of incr. On every expected-invalid input incr
\* returns None; it raises no exception to the caller.
C3_IncrNeverRaises ==
    (op = "incr" /\ ExpectedInvalid(version, raw_pattern))
    => result.kind = "None"

\* C4: full-match rule. When the compiled pattern does not match the
\* version string, or matches only a proper prefix of it,
\* parse_version_info fails with PatternError and is_valid returns False;
\* is_valid returns True exactly when parse_version_info returns a
\* VersionInfo; is_valid always returns a boolean.
C4_FullMatch ==
    op = "is_valid"
    => /\ valid.result.kind = "ok"
       /\ (~valid.matched \/ valid.match_len < Len(valid.version_str))
             => valid.parsed = "PatternError" /\ valid.result.value = FALSE
       /\ valid.result.value = TRUE <=> valid.parsed = "ok"

\* a call of incr with no bump, no tag and the date pinned
NoBumpPinned(c) ==
    /\ ~c.major /\ ~c.minor /\ ~c.patch /\ ~c.release_num
    /\ c.tag = "" /\ c.pin_date

\* C5 as stated: for every template and every old_version valid for it,
\* incr with no bump flag, no tag and pin_date=true returns None.
C5_NoOpAlways ==
    (/\ op = "incr"
     /\ NoBumpPinned(call)
     /\ parse_version_info(version, raw_pattern).kind = "ok")
    => result.kind = "None"

\* old_version is the rendering of its own parse under the template
Canonical(version_str, t) ==
    /\ parse_version_info(version_str, t).kind = "ok"
    /\ format_version(parse_version_info(version_str, t).vinfo, t)
          = [kind |-> "ok", str |-> version_str]

\* C5 amended: for every template that references none of the counters
\* every incr advances (bid, inc0, inc1) and every valid old_version that
\* is the template's own rendering of its parse, incr with no bump flag,
\* no tag and pin_date=true returns None.
C5_NoOpWithoutBid ==
    (/\ op = "incr"
     /\ NoBumpPinned(call)
     /\ ReferencedFields(raw_pattern) \cap {"bid", "inc0", "inc1"} = {}
     /\ Canonical(version, raw_pattern))
    => result.kind = "None"

\* C5 witness: a pinned call without bumps on a dated version rendered the
\* version again and returned None
C5_Witness ==
    /\ op = "incr"
    /\ NoBumpPinned(call)
    /\ raw_pattern = TDate
    /\ Canonical(version, raw_pattern)
    /\ result.kind = "None"
    /\ result.steps[Len(result.steps)] = "format_version"

\* the week rule, stated on the text of the template
HasText(t, text) ==
    \E i \in 1..Len(t) :
        /\ i + Len(text) - 1 <= Len(t)
        /\ SubSeq(t, i, i + Len(text) - 1) = text

WeekRuleBroken(t) ==
    LET gregorian_year == \E y \in {<<"Y", "Y", "Y", "Y">>, <<"Y", "Y">>, <<"0", "Y">>} : HasText(t, y)
        iso_year == \E g \in {<<"G", "G", "G", "G">>, <<"G", "G">>, <<"0", "G">>} : HasText(t, g)
        iso_week == \E v \in {<<"V", "V">>, <<"0", "V">>} : HasText(t, v)
        other_week == \E w \in {<<"W", "W">>, <<"0", "W">>, <<"U", "U">>, <<"0", "U">>} : HasText(t, w)
    IN  (gregorian_year /\ iso_week) \/ (iso_year /\ other_week)

\* C6: week-rule rejection. is_valid_week_pattern returns False exactly
\* when the template has a Gregorian-year token with an ISO-week token or
\* an ISO-year token with a non-ISO-week token, and True otherwise.
C6_WeekRule ==
    op = "week" => (week_ok <=> ~WeekRuleBroken(raw_pattern))

\* C6 witness: a template mixing a Gregorian year with an ISO week was
\* rejected
C6_Witness ==
    /\ op = "week"
    /\ WeekRuleBroken(raw_pattern)
    /\ HasText(raw_pattern, <<"Y", "Y", "Y", "Y">>)
    /\ ~week_ok

\* C7: ordering of validation in incr. When the template fails the week
\* rule, incr returns None for every old_version, flags and date, having
\* neither compiled the template nor parsed old_version.
C7_WeekRuleFirst ==
    (op = "incr" /\ WeekRuleBroken(raw_pattern))
    => /\ result.kind = "None"
       /\ result.steps = <<"is_valid_week_pattern">>

\* C7 witness: incr returned None on a template that fails the week rule
\* and whose brackets are unclosed as well
C7_Witness ==
    /\ op = "incr"
    /\ raw_pattern = TBadWeek2
    /\ WeekRuleBroken(raw_pattern)
    /\ result.kind = "None"
    /\ result.steps = <<"is_valid_week_pattern">>

\* tag and pytag name each other
TagsConsistent(vinfo) ==
    /\ vinfo.tag \in DOMAIN PEP440_TAG_BY_RELEASE
    /\ vinfo.pytag \in DOMAIN RELEASE_BY_PEP440_TAG
    /\ vinfo.pytag = PEP440_TAG_BY_RELEASE[vinfo.tag]
    /\ vinfo.tag = RELEASE_BY_PEP440_TAG[vinfo.pytag]

CarriedNum(old_vinfo, c) == old_vinfo.num + (IF c.release_num THEN 1 ELSE 0)

TopSegments(t) ==
    LET tree == parse_segtree(t).tree
    IN  {tree[i].seg : i \in {j \in DOMAIN tree : tree[j].leaf}}

\* C10: the outermost segment is never elided. For every VersionInfo and
\* every template the output of format_version contains the rendering of
\* every top-level segment of the template.
C10_OutermostKept ==
    (op = "format_parse" /\ round_trip.formatted.kind = "ok")
    => \A seg \in TopSegments(raw_pattern) :
          HasText(round_trip.formatted.str,
                  format_segment(seg, format_part_values(round_trip.vinfo)).result)

\* the optional groups of a segment tree: the child lists of its branches
RECURSIVE Groups(_)
Groups(kids) ==
    UNION {{kids[i].kids} \cup Groups(kids[i].kids) : i \in {j \in DOMAIN kids : ~kids[j].leaf}}

\* what a child of a group contributes to the group's result_parts
Piece(kid, part_values) ==
    IF kid.leaf THEN format_segment(kid.seg, part_values)
    ELSE format_segment_tree(kid.kids, part_values)

NonZeroKid(kid, part_values) ==
    ~Piece(kid, part_values).is_literal /\ ~Piece(kid, part_values).is_zero

\* a list of children rendered in full: every part formatted, nothing elided
RECURSIVE FullRender(_, _)
FullRender(kids, part_values) ==
    IF kids = <<>> THEN <<>>
    ELSE (IF Head(kids).leaf THEN format_segment(Head(kids).seg, part_values).result
          ELSE FullRender(Head(kids).kids, part_values))
         \o FullRender(Tail(kids), part_values)

\* a group as the elision rule renders it, from child i on: a child with a
\* non-zero sibling to its right is rendered in full, any other child as
\* it renders itself
RECURSIVE RenderedFrom(_, _, _)
RenderedFrom(kids, part_values, i) ==
    IF i > Len(kids) THEN <<>>
    ELSE (IF \E j \in (i + 1)..Len(kids) : NonZeroKid(kids[j], part_values)
          THEN FullRender(<<kids[i]>>, part_values)
          ELSE Piece(kids[i], part_values).result)
         \o RenderedFrom(kids, part_values, i + 1)

\* C11: elision monotonicity. Within every optional group that has a
\* non-zero child, every sibling segment and optional sub-group to the left
\* of a non-zero child is rendered in full, even if all of its own parts
\* are zero; a sub-group is rendered as the empty string only if it is
\* all-zero and every sibling to its right is zero as well.
C11_ElisionMonotone ==
    (op \in {"format_parse", "rerender"} /\ round_trip.formatted.kind = "ok")
    => LET part_values == format_part_values(round_trip.vinfo)
       IN  \A kids \in Groups(parse_segtree(raw_pattern).tree) :
              /\ ~format_segment_tree(kids, part_values).is_zero
                    => format_segment_tree(kids, part_values).result
                          = RenderedFrom(kids, part_values, 1)
              /\ \A i \in DOMAIN kids :
                    (~kids[i].leaf /\ Piece(kids[i], part_values).result = <<>>)
                    => \A j \in i..Len(kids) : ~NonZeroKid(kids[j], part_values)

\* the calendar values incr weighs old_version against
Candidate(c, old_vinfo) ==
    IF c.pin_date THEN [f \in CalFieldSet |-> old_vinfo[f]] ELSE cal_info(c.date)

\* the calendar fields set on both sides
SharedCal(old_vinfo, cand) ==
    {i \in DOMAIN CalFields :
        old_vinfo[CalFields[i]] # NoneInt /\ cand[CalFields[i]] # NoneInt}

\* old >= candidate on every shared field
EachGe(old_vinfo, cand) ==
    \A i \in SharedCal(old_vinfo, cand) :
        old_vinfo[CalFields[i]] >= cand[CalFields[i]]

\* old > candidate on the first shared field, in the order of
\* V2CalendarInfo, on which they differ
FirstDiffGt(old_vinfo, cand) ==
    \E i \in SharedCal(old_vinfo, cand) :
        /\ old_vinfo[CalFields[i]] > cand[CalFields[i]]
        /\ \A j \in SharedCal(old_vinfo, cand) :
              j < i => old_vinfo[CalFields[j]] = cand[CalFields[j]]

\* in the guarded case only bid, the counters and what the caller asked
\* to bump change
OnlyBumpsChange(res, c) ==
    /\ res.reset_fields = {}
    /\ \A f \in CalFieldSet : res.new_vinfo[f] = res.old_vinfo[f]
    /\ res.new_vinfo.major # res.old_vinfo.major => c.major
    /\ res.new_vinfo.minor # res.old_vinfo.minor => c.major \/ c.minor
    /\ res.new_vinfo.patch # res.old_vinfo.patch => c.major \/ c.minor \/ c.patch
    /\ res.new_vinfo.num # res.old_vinfo.num => c.release_num \/ c.tag # ""
    /\ res.new_vinfo.tag # res.old_vinfo.tag => c.tag # ""

\* what the guard did with the calendar fields, for a given test
GuardedWhen(is_future, res, c) ==
    IF is_future
    THEN res.dated_vinfo = res.old_vinfo /\ OnlyBumpsChange(res, c)
    ELSE res.dated_vinfo = ReplaceCal(res.old_vinfo, Candidate(c, res.old_vinfo))

\* C12 as stated: incr keeps the calendar fields of old_version exactly
\* when every calendar field set in both old_vinfo and the candidate has
\* old >= candidate; otherwise it overlays all candidate fields. In the
\* guarded case only bid, the counters and the requested bumps change.
C12_GuardEachGe ==
    (op = "incr" /\ result.new_vinfo # NoVinfo)
    => GuardedWhen(EachGe(result.old_vinfo, Candidate(call, result.old_vinfo)),
                   result, call)

\* C12 amended: incr keeps the calendar fields of old_version exactly when
\* the values of old_vinfo on the calendar fields set on both sides, in
\* the order of V2CalendarInfo, are lexicographically greater than the
\* candidate's: old > candidate on the first shared field on which they
\* differ. Otherwise all candidate fields are overlaid. In the guarded
\* case only bid, the counters and the requested bumps change.
C12_GuardFirstDiffGt ==
    (op = "incr" /\ result.new_vinfo # NoVinfo)
    => GuardedWhen(FirstDiffGt(result.old_vinfo, Candidate(call, result.old_vinfo)),
                   result, call)

\* C12 witness: 'v2018w01.1034' was bumped with today in ISO week 2016w52;
\* the week is smaller, the year larger, and the calendar part was kept
C12_Witness ==
    /\ op = "incr"
    /\ raw_pattern = TIsoWeek
    /\ ~call.pin_date
    /\ result.old_vinfo.year_g = 2018 /\ result.old_vinfo.week_v = 1
    /\ cal_info(call.date).year_g = 2016 /\ cal_info(call.date).week_v = 52
    /\ result.dated_vinfo = result.old_vinfo
    /\ result.kind = "str"
    /\ result.new_vinfo.year_g = 2018 /\ result.new_vinfo.week_v = 1

\* the calendar fields of old_vinfo are those of the parse of a version
SameCalendar(parsed, old_vinfo) ==
    parsed.kind = "ok" => \A f \in CalFieldSet : parsed.vinfo[f] = old_vinfo[f]

\* C13: date pinning. When incr is called with pin_date=true, for every
\* date and every flag combination the calendar fields of the resulting
\* version equal those parsed from old_version, no field counts as changed
\* and no field is force-reset by the reset cascade.
C13_PinDateKeepsCalendar ==
    (op = "incr" /\ call.pin_date /\ result.new_vinfo # NoVinfo)
    => /\ result.dated_vinfo = result.old_vinfo
       /\ result.reset_fields = {}
       /\ \A f \in CalFieldSet : result.new_vinfo[f] = result.old_vinfo[f]
       /\ result.kind = "str"
             => SameCalendar(parse_version_info(result.value, raw_pattern),
                             result.old_vinfo)

\* C13 witness: 'v201712.0033-beta' bumped with pin_date on 2018-01-01
\* stayed in December 2017
C13_Witness ==
    /\ op = "incr"
    /\ call.pin_date /\ call.date = MkDate(2018, 1, 1)
    /\ raw_pattern = TDefault
    /\ version = <<"v", "2", "0", "1", "7", "1", "2", ".", "0", "0", "3", "3", "-", "b", "e", "t", "a">>
    /\ result.kind = "str"
    /\ result.new_vinfo.year_y = 2017 /\ result.new_vinfo.month = 12
    /\ SubSeq(result.value, 1, 7) = <<"v", "2", "0", "1", "7", "1", "2">>

\* the parts of a template, as the matcher's tokenizer finds them
TemplateParts(t) ==
    {Tokenize(t, 1)[i].v : i \in {j \in DOMAIN Tokenize(t, 1) : Tokenize(t, 1)[j].k = "part"}}

\* a template with each part replaced by its formatting of the part's
\* field and the structural brackets dropped
RECURSIVE PartsReplaced(_, _, _)
PartsReplaced(tokens, vinfo, i) ==
    IF i > Len(tokens) THEN <<>>
    ELSE (CASE tokens[i].k = "part" ->
                 FormatPart(tokens[i].v, vinfo[PartRec(tokens[i].v).field])
            [] tokens[i].k = "lit" -> <<tokens[i].v>>
            [] OTHER -> <<>>)
         \o PartsReplaced(tokens, vinfo, i + 1)

\* every part of the template has a value and no group of the template,
\* nor the template as a whole, is elided
AllRendered(t, vinfo) ==
    /\ \A part \in TemplateParts(t) :
          ~IsNone(PartRec(part).field, vinfo[PartRec(part).field])
    /\ \A kids \in {parse_segtree(t).tree} \cup Groups(parse_segtree(t).tree) :
          ~format_segment_tree(kids, format_part_values(vinfo)).is_zero

\* a version parsed under one template and rendered under another is the
\* second template with each part replaced
RerenderedByPart ==
    (/\ op = "rerender"
     /\ round_trip.formatted.kind = "ok"
     /\ AllRendered(raw_pattern, round_trip.vinfo))
    => round_trip.formatted.str
          = PartsReplaced(Tokenize(raw_pattern, 1), round_trip.vinfo, 1)

\* the version value of 'v201712.0033-beta' under 'vYYYY0M.BUILD[-RELEASE]'
\* was rendered under 'vYY.BLD[-PYTAGNUM]'
RerenderedExample ==
    /\ op = "rerender"
    /\ raw_pattern = TPep440
    /\ round_trip.vinfo
          = parse_version_info(<<"v", "2", "0", "1", "7", "1", "2", ".", "0", "0", "3", "3", "-", "b", "e", "t", "a">>, TDefault).vinfo

RECURSIVE FieldsInOrder(_, _)
FieldsInOrder(tokens, i) ==
    IF i > Len(tokens) THEN <<>>
    ELSE (IF tokens[i].k = "part" THEN <<PartRec(tokens[i].v).field>> ELSE <<>>)
         \o FieldsInOrder(tokens, i + 1)

\* field f stands strictly right of a field whose value the date overlay
\* changed
RightOfChange(fields, f, old_vinfo, dated) ==
    \E i \in DOMAIN fields : \E j \in DOMAIN fields :
        /\ i < j
        /\ fields[j] = f
        /\ old_vinfo[fields[i]] # dated[fields[i]]

\* C15: reset cascade on date rollover. With the fields in template
\* order, incr force-resets a field if and only if the field has an
\* initial value (major, minor, patch, num, inc0, inc1) and some field
\* strictly to its left in the template has another value in the
\* date-overlaid version than in the old one; a field at or left of the
\* leftmost change, and a calendar field the template does not reference,
\* cause no reset.
C15_ResetCascade ==
    (op = "incr" /\ result.dated_vinfo # NoVinfo)
    => \A f \in VinfoFields :
          f \in result.reset_fields
          <=> /\ f \in DOMAIN V2_FIELD_INITIAL_VALUES
              /\ RightOfChange(FieldsInOrder(Tokenize(raw_pattern, 1), 1), f,
                               result.old_vinfo, result.dated_vinfo)

\* C15 witness: under 'vMAJOR.YYYY.PATCH' the year rolled over; patch,
\* right of it, was reset and major, left of it, was not
C15_Witness ==
    /\ op = "incr"
    /\ raw_pattern = TMajorYear
    /\ result.old_vinfo.year_y = 2017 /\ result.dated_vinfo.year_y = 2018
    /\ result.dated_vinfo.week_w # result.old_vinfo.week_w
    /\ result.reset_fields = {"patch"}

\* the bump flags of incr and the field each one increments
BumpTarget ==
    [major |-> "major", minor |-> "minor", patch |-> "patch", release_num |-> "num"]

\* C16: reset wins over bump. For each bump flag (major, minor, patch,
\* release_num): when the reset cascade force-reset the flag's target
\* field (major, minor, patch, num) in the same incr call, the bump is not
\* applied and the field has its initial value in the resulting version.
C16_ResetWinsOverBump ==
    (op = "incr" /\ result.new_vinfo # NoVinfo)
    => \A flag \in DOMAIN BumpTarget :
          (call[flag] /\ BumpTarget[flag] \in result.reset_fields)
          => result.new_vinfo[BumpTarget[flag]]
                = V2_FIELD_INITIAL_VALUES[BumpTarget[flag]]

\* field g stands strictly right of field f in the template
RightOf(fields, f, g) ==
    \E i \in DOMAIN fields : \E j \in DOMAIN fields :
        i < j /\ fields[i] = f /\ fields[j] = g

\* incr incremented the target of the flag: the flag is set, the field is
\* in the template and one more than it was
Bumped(flag, res, c, fields) ==
    /\ c[flag]
    /\ \E i \in DOMAIN fields : fields[i] = BumpTarget[flag]
    /\ res.new_vinfo[BumpTarget[flag]] = res.old_vinfo[BumpTarget[flag]] + 1

\* no flag of the call bumps field g
NotBumped(g, c) == \A flag \in DOMAIN BumpTarget : BumpTarget[flag] = g => ~c[flag]

\* C17: bump-triggered cascade. When incr increments a field through a
\* bump flag, every field right of it in template order that has an
\* initial value (and is not bumped itself) holds its initial value in the
\* resulting version, and no field left of it is changed by the bump.
C17_BumpCascade ==
    (op = "incr" /\ result.new_vinfo # NoVinfo)
    => LET fields == FieldsInOrder(Tokenize(raw_pattern, 1), 1)
       IN  \A flag \in DOMAIN BumpTarget :
              Bumped(flag, result, call, fields)
              => \A g \in DOMAIN V2_FIELD_INITIAL_VALUES :
                    /\ (RightOf(fields, BumpTarget[flag], g) /\ NotBumped(g, call))
                          => result.new_vinfo[g] = V2_FIELD_INITIAL_VALUES[g]
                    /\ (/\ RightOf(fields, g, BumpTarget[flag])
                        /\ NotBumped(g, call)
                        /\ g \notin result.reset_fields)
                          => result.new_vinfo[g] = result.old_vinfo[g]

\* the field values name a concrete date: year_y with doy, or year_y with
\* month and dom
HasDate(fvals) ==
    /\ "year_y" \in DOMAIN fvals
    /\ "doy" \in DOMAIN fvals \/ {"month", "dom"} \subseteq DOMAIN fvals

\* that date; the day of the year is used when it is given
DateOf(fvals) ==
    IF "doy" \in DOMAIN fvals
    THEN date_from_doy(StrToInt(fvals["year_y"]), StrToInt(fvals["doy"]))
    ELSE MkDate(StrToInt(fvals["year_y"]), StrToInt(fvals["month"]),
                StrToInt(fvals["dom"]))

\* C18: a concrete date is authoritative. Whenever the field values given
\* to parse_field_values_to_cinfo determine a concrete date, all nine
\* calendar fields of the result equal the values cal_info computes for
\* that date, whatever value was supplied for any of them.
C18_DateAuthoritative ==
    (op = "cinfo" /\ cinfo.result.kind = "ok" /\ HasDate(cinfo.fvals))
    => cinfo.result.cinfo = cal_info(DateOf(cinfo.fvals))

\* the character at index i of a template is a structural bracket: a
\* bracket that no backslash stands before
Structural(t, i) ==
    t[i] \in {"[", "]"} /\ ~(i > 1 /\ t[i - 1] = "\\")

\* the structural brackets from index i on are balanced at nesting depth
\* depth: none closes a group that is not open, none stays open
RECURSIVE BalancedFrom(_, _, _)
BalancedFrom(t, i, depth) ==
    IF i > Len(t) THEN depth = 0
    ELSE IF Structural(t, i) /\ t[i] = "[" THEN BalancedFrom(t, i + 1, depth + 1)
    ELSE IF Structural(t, i) /\ t[i] = "]"
         THEN depth > 0 /\ BalancedFrom(t, i + 1, depth - 1)
    ELSE BalancedFrom(t, i + 1, depth)

BracketsBalanced(t) == BalancedFrom(t, 1, 0)

\* C19: bracket balance is enforced. For every template whose unescaped
\* brackets are not balanced (an unescaped "]" with no unmatched "["
\* before it, or an unescaped "[" that is never closed) _parse_segtree
\* fails with an error and returns no tree.
C19_UnbalancedFails ==
    (op = "segtree" /\ ~BracketsBalanced(raw_pattern))
    => segtree.result.kind = "ValueError"

\* the end of the literal run that starts at index i: the index of the
\* next structural bracket, or one past the end
RECURSIVE RunEnd(_, _)
RunEnd(t, i) ==
    IF i > Len(t) \/ Structural(t, i) THEN i ELSE RunEnd(t, i + 1)

\* the children of the group that starts at index i, read off the
\* brackets, and the index after the bracket that closes the group
RECURSIVE Mirror(_, _)
Mirror(t, i) ==
    IF i > Len(t) THEN [kids |-> <<>>, next |-> i]
    ELSE IF Structural(t, i) /\ t[i] = "]" THEN [kids |-> <<>>, next |-> i + 1]
    ELSE IF Structural(t, i)
         THEN LET inner == Mirror(t, i + 1)
                  rest == Mirror(t, inner.next)
              IN  [kids |-> <<Branch(inner.kids)>> \o rest.kids, next |-> rest.next]
    ELSE LET rest == Mirror(t, RunEnd(t, i))
         IN  [kids |-> <<Leaf(SubSeq(t, i, RunEnd(t, i) - 1))>> \o rest.kids,
              next |-> rest.next]

\* a template without its structural brackets
RECURSIVE Unbracketed(_, _)
Unbracketed(t, i) ==
    IF i > Len(t) THEN <<>>
    ELSE (IF Structural(t, i) THEN <<>> ELSE <<t[i]>>) \o Unbracketed(t, i + 1)

\* segments joined
RECURSIVE Joined(_)
Joined(segments) ==
    IF segments = <<>> THEN <<>> ELSE Head(segments) \o Joined(Tail(segments))

\* the tree of the doctest: ['aa', ['bb', ['cc'], 'dd', ['ee'], 'ff'], 'gg']
DoctestTree ==
    <<Leaf(<<"a", "a">>),
      Branch(<<Leaf(<<"b", "b">>), Branch(<<Leaf(<<"c", "c">>)>>),
               Leaf(<<"d", "d">>), Branch(<<Leaf(<<"e", "e">>)>>),
               Leaf(<<"f", "f">>)>>),
      Leaf(<<"g", "g">>)>>

\* C20: segment-tree shape. For every template with balanced unescaped
\* brackets _parse_segtree returns the nested list that mirrors the
\* bracket nesting, each maximal literal run a leaf and each bracketed
\* region a nested list in its place ('aa[bb[cc]dd[ee]ff]gg' gives
\* ['aa', ['bb', ['cc'], 'dd', ['ee'], 'ff'], 'gg']); the flattened tree is
\* the leaves from left to right, and their concatenation is the template
\* without its structural brackets.
C20_TreeMirrorsBrackets ==
    (op = "segtree" /\ BracketsBalanced(raw_pattern))
    => /\ segtree.result.kind = "ok"
       /\ segtree.result.tree = Mirror(raw_pattern, 1).kids
       /\ segtree.flat = iter_flat_segtree(Mirror(raw_pattern, 1).kids)
       /\ Joined(segtree.flat) = Unbracketed(raw_pattern, 1)
       /\ raw_pattern = TDoctest => segtree.result.tree = DoctestTree

====
